---- MODULE Spec2Model ----
(***************************************************************************)
(* Model of voice_note_recorder.audio.AudioRecorder and of the three       *)
(* execution contexts that touch it:                                       *)
(*   - the control context (the Qt main thread): start, pause, resume,     *)
(*     stop, clear, save, get_duration, set_quality, set_device;           *)
(*   - the audio delivery context (the sounddevice callback thread):       *)
(*     _audio_callback;                                                    *)
(*   - the consumer threads started by start(): _recording_loop.           *)
(* Every step is one access to shared data (an attribute read or write, a  *)
(* queue operation, a lock operation), which is the grain at which the     *)
(* interpreter can switch threads.                                         *)
(* Spec is that state machine; FairSpec is the same machine under fair     *)
(* scheduling.  SpecLevel and SpecSettings apply two functions that do not *)
(* touch the recorder's state, the level computation of _audio_callback    *)
(* and Settings.load of config.py, to every input of a bounded set.        *)
(* SpecUi is the recorder as ui.MainWindow drives it: the Record button,   *)
(* the refresh timer (_update_ui) and the closing of the window.           *)
(***************************************************************************)
EXTENDS Integers, Sequences, FiniteSets, TLC

\* ---------------------------------------------------------------- bounds
MaxChunks == 2
MaxThreads == 2
MaxSamples == 3

\* ------------------------------------------------------------- constants
CHANNELS == 1

RecordingState == {"IDLE", "RECORDING", "PAUSED", "STOPPED"}

\* QualitySettings instances of QUALITY_PRESETS.  The record has exactly the
\* attributes the dataclass declares (description and max_duration_str are
\* display strings and are left out).
QUALITY_PRESETS ==
  [ standard |-> [name |-> "Standard", sample_rate |-> 16000, mp3_bitrate |-> 64,
                  sample_width |-> 2, dtype |-> "int16"],
    extended |-> [name |-> "Extended", sample_rate |-> 16000, mp3_bitrate |-> 32,
                  sample_width |-> 2, dtype |-> "int16"],
    maximum  |-> [name |-> "Maximum Duration", sample_rate |-> 8000, mp3_bitrate |-> 24,
                  sample_width |-> 2, dtype |-> "int16"] ]

QualityPreset == DOMAIN QUALITY_PRESETS

DEFAULT_QUALITY_PRESET == "extended"

get_quality_settings == QUALITY_PRESETS[DEFAULT_QUALITY_PRESET]

\* the file size limit, in MiB
GEMINI_MAX_FILE_SIZE_MB == 20

\* QualitySettings.bytes_per_second_mp3
bytes_per_second_mp3(q) == (q.mp3_bitrate * 1000) \div 8

\* QualitySettings.max_duration_seconds
max_duration_seconds(q) ==
  (GEMINI_MAX_FILE_SIZE_MB * 1024 * 1024) \div bytes_per_second_mp3(q)

\* bytes per second of audio in the file save() writes: a WAV file
\* (with_suffix(".wav"), sf.write) of the samples as they were captured, one
\* sample of sample_width bytes per channel
SavedBytesPerSecond(q) == q.sample_rate * q.sample_width * CHANNELS

\* getattr: an attribute the object does not have raises AttributeError
HasAttr(obj, a) == a \in DOMAIN obj

\* blocksize=int(sample_rate * 0.1): 1600 at 16000 Hz, 800 at 8000 Hz
BlockSize(rate) == rate \div 10

\* arguments of set_device(): None (0) or the index of an input device
DeviceIndexes == {0, 1}

\* destinations of save(): a directory that is writable or not, and the
\* suffix the caller gave
Dirs == {"rw", "ro"}
Suffixes == {"", ".mp3"}
Dests == [dir : Dirs, suffix : Suffixes]

\* Path.with_suffix(".wav")
WithSuffixWav(p) == [p EXCEPT !.suffix = ".wav"]

Writable(p) == p.dir = "rw"

\* ------------------------------------------------------------- variables
VARIABLES
  state,       \* self._state
  quality,     \* self._quality
  stream,      \* self._stream: <<>> is None, else <<[rate, channels, blocksize, device, active]>>
  device_index,\* self._device_index: 0 is None (the system default), else a device index
  selected,    \* the argument of the latest set_device() call (0 before the first)
  levels,      \* ids of the chunks a level was published for, in order of publication
  frames,      \* self._recorded_frames: sequence of chunks
  queue,       \* self._audio_queue: sequence of chunks
  lock,        \* self._lock: 0 free, -1 held by the control thread, t by consumer t
  thread,      \* self._recording_thread: 0 is None, else the thread's number
  cons,        \* the consumer threads: number -> [pc, data]
  cb,          \* the delivery callback in progress: [pc, chunk]
  ctl,         \* the control operation in progress
  file,        \* what sf.write left at the destination: <<>> or <<[path, rate, subtype, data]>>
  nDelivered,  \* number of chunks the audio subsystem has delivered so far
  recvRec,     \* ids of the chunks the callback found the state RECORDING for,
               \* since the last start() or clear()
  last,        \* the return of a control operation in the step just taken:
               \* <<>> when that step was not a return, else <<[op, st0, out, dur]>>
               \* (dur: <<>>, or <<d>> when get_duration returned d)
  calc,        \* the call of a function outside the recorder made in the step
               \* just taken: <<>>, or <<[fn, ...]>> with its arguments and result
  ui           \* the main window: which controls are enabled, whether the save
               \* controls are visible, and whether the window has been closed

vars == <<state, quality, stream, device_index, selected, levels, frames, queue,
          lock, thread, cons, cb, ctl, file, nDelivered, recvRec, last, calc,
          ui>>

Threads == 1..MaxThreads

\* a chunk: its number in delivery order, its length in samples, the sample
\* rate of the stream that captured it, and the state the callback read when
\* it received it
NoChunk == [id |-> 0, n |-> 0, rate |-> 0, rs |-> "IDLE"]

Ready == [pc |-> "ready", op |-> "none", st0 |-> "IDLE", f0 |-> <<>>, s0 |-> FALSE,
          dest |-> [dir |-> "rw", suffix |-> ""], data |-> <<>>]

Dead == [pc |-> "dead", data |-> NoChunk]

CbIdle == [pc |-> "idle", chunk |-> NoChunk]

\* MainWindow._setup_record_tab and _setup_settings_tab: a widget is enabled
\* and shown unless the code says otherwise; Pause, Stop and Clear are
\* disabled (lines 152, 159, 167) and the save controls hidden (line 192)
SetupUi == [record_btn |-> TRUE, pause_btn |-> FALSE, stop_btn |-> FALSE,
            clear_btn |-> FALSE, quality_combo |-> TRUE, save_frame |-> FALSE,
            closed |-> FALSE]

\* AudioRecorder.__init__, and the window built around it
Init ==
  /\ state = "IDLE"
  /\ quality = get_quality_settings
  /\ stream = <<>>
  /\ device_index = 0
  /\ selected = 0
  /\ levels = <<>>
  /\ frames = <<>>
  /\ queue = <<>>
  /\ lock = 0
  /\ thread = 0
  /\ cons = [t \in Threads |-> Dead]
  /\ cb = CbIdle
  /\ ctl = Ready
  /\ file = <<>>
  /\ nDelivered = 0
  /\ recvRec = {}
  /\ last = <<>>
  /\ calc = <<>>
  /\ ui = SetupUi

\* ------------------------------------------------------------- helpers
RECURSIVE TotalFrames(_)
\* sum(len(f) for f in self._recorded_frames)
TotalFrames(fr) == IF fr = <<>> THEN 0 ELSE Head(fr).n + TotalFrames(Tail(fr))

RECURSIVE ChunkIds(_)
ChunkIds(fr) == IF fr = <<>> THEN <<>> ELSE <<Head(fr).id>> \o ChunkIds(Tail(fr))

\* np.concatenate(self._recorded_frames, axis=0): one array holding the
\* samples of every chunk in list order; n is its length and src names, in
\* order, the chunks its samples come from
Concatenate(fr) == [n |-> TotalFrames(fr), src |-> ChunkIds(fr)]

\* a duration in seconds is the exact quotient num / den
Seconds(num, den) == [num |-> num, den |-> den]

\* AudioRecorder.get_duration, on the buffer it sees under the lock
GetDuration(fr, q) ==
  IF fr = <<>> THEN Seconds(0, 1) ELSE Seconds(TotalFrames(fr), q.sample_rate)

DurLeq(a, b) == a.num * b.den <= b.num * a.den

\* the control thread enters operation op
Call(op, pc) == [Ready EXCEPT !.pc = pc, !.op = op, !.st0 = state, !.f0 = frames,
                              !.s0 = (stream # <<>>)]

\* the operation in progress returns (out = "ok") or raises (out names the error)
Returned(c, out) == <<[op |-> c.op, st0 |-> c.st0, out |-> out, dur |-> <<>>]>>

LeastDead == CHOOSE t \in Threads : /\ cons[t].pc = "dead"
                                    /\ \A u \in Threads : cons[u].pc = "dead" => t <= u

\* ------------------------------------------------- the control operations
\* start() without its test of the state
StartUnguarded ==
  /\ ctl.pc = "ready"
  /\ \E t \in Threads : cons[t].pc = "dead"
  /\ frames' = <<>>
  /\ state' = "RECORDING"
  /\ ctl' = Call("start", "start_drain")
  /\ last' = <<>>
  /\ recvRec' = {}
  /\ UNCHANGED <<quality, stream, queue, lock, thread, cons, cb, file, nDelivered>>
  /\ UNCHANGED <<device_index, selected, levels>>
  /\ UNCHANGED <<calc, ui>>

\* AudioRecorder.start, lines 152-158
Start ==
  /\ ctl.pc = "ready"
  /\ state = "IDLE" => \E t \in Threads : cons[t].pc = "dead"
  /\ IF state # "IDLE"
       THEN /\ ctl' = Ready
            /\ last' = Returned(Call("start", "ready"), "ok")
            /\ UNCHANGED <<state, frames, recvRec>>
       ELSE /\ frames' = <<>>
            /\ state' = "RECORDING"
            /\ ctl' = Call("start", "start_drain")
            /\ last' = <<>>
            /\ recvRec' = {}
  /\ UNCHANGED <<quality, stream, queue, lock, thread, cons, cb, file, nDelivered>>
  /\ UNCHANGED <<device_index, selected, levels>>
  /\ UNCHANGED <<calc, ui>>

\* AudioRecorder.start, lines 160-165: one get_nowait per step
StartDrain ==
  /\ ctl.pc = "start_drain"
  /\ IF queue # <<>>
       THEN queue' = Tail(queue) /\ ctl' = ctl
       ELSE queue' = queue /\ ctl' = [ctl EXCEPT !.pc = "start_open"]
  /\ UNCHANGED <<state, quality, stream, frames, lock, thread, cons, cb, file,
                 nDelivered, recvRec>>
  /\ last' = <<>>
  /\ UNCHANGED <<device_index, selected, levels>>
  /\ UNCHANGED <<calc, ui>>

\* start() opening the stream at the default preset's rate
StartOpenDefaultRate ==
  /\ ctl.pc = "start_open"
  /\ \E r \in {"ok", "open_raises", "start_raises"} :
       LET s == [rate |-> get_quality_settings.sample_rate, channels |-> CHANNELS,
                 blocksize |-> BlockSize(get_quality_settings.sample_rate),
                 device |-> device_index, active |-> r = "ok"]
       IN  /\ stream' = IF r = "open_raises" THEN stream ELSE <<s>>
           /\ IF r = "ok"
                THEN ctl' = [ctl EXCEPT !.pc = "start_thread"] /\ last' = <<>>
                ELSE ctl' = Ready /\ last' = Returned(ctl, "PortAudioError")
  /\ UNCHANGED <<state, quality, frames, queue, lock, thread, cons, cb, file,
                 nDelivered, recvRec>>
  /\ UNCHANGED <<device_index, selected, levels>>
  /\ UNCHANGED <<calc, ui>>

\* AudioRecorder.start, lines 167-176: sd.InputStream(...) or stream.start()
\* may raise; the exception leaves start() at once
StartOpen ==
  /\ ctl.pc = "start_open"
  /\ \E r \in {"ok", "open_raises", "start_raises"} :
       LET s == [rate |-> quality.sample_rate, channels |-> CHANNELS,
                 blocksize |-> BlockSize(quality.sample_rate),
                 device |-> device_index, active |-> r = "ok"]
       IN  /\ stream' = IF r = "open_raises" THEN stream ELSE <<s>>
           /\ IF r = "ok"
                THEN ctl' = [ctl EXCEPT !.pc = "start_thread"] /\ last' = <<>>
                ELSE ctl' = Ready /\ last' = Returned(ctl, "PortAudioError")
  /\ UNCHANGED <<state, quality, frames, queue, lock, thread, cons, cb, file,
                 nDelivered, recvRec>>
  /\ UNCHANGED <<device_index, selected, levels>>
  /\ UNCHANGED <<calc, ui>>

\* AudioRecorder.start, lines 178-180
StartThread ==
  /\ ctl.pc = "start_thread"
  /\ thread' = LeastDead
  /\ cons' = [cons EXCEPT ![LeastDead] = [pc |-> "loop", data |-> NoChunk]]
  /\ ctl' = Ready
  /\ last' = Returned(ctl, "ok")
  /\ UNCHANGED <<state, quality, stream, frames, queue, lock, cb, file,
                 nDelivered, recvRec>>
  /\ UNCHANGED <<device_index, selected, levels>>
  /\ UNCHANGED <<calc, ui>>

\* AudioRecorder.pause
Pause ==
  /\ ctl.pc = "ready"
  /\ state' = IF state = "RECORDING" THEN "PAUSED" ELSE state
  /\ ctl' = Ready
  /\ last' = Returned(Call("pause", "ready"), "ok")
  /\ UNCHANGED <<quality, stream, frames, queue, lock, thread, cons, cb, file,
                 nDelivered, recvRec>>
  /\ UNCHANGED <<device_index, selected, levels>>
  /\ UNCHANGED <<calc, ui>>

\* resume() without its test of the state
ResumeUnguarded ==
  /\ ctl.pc = "ready"
  /\ state' = "RECORDING"
  /\ ctl' = Ready
  /\ last' = Returned(Call("resume", "ready"), "ok")
  /\ UNCHANGED <<quality, stream, frames, queue, lock, thread, cons, cb, file,
                 nDelivered, recvRec>>
  /\ UNCHANGED <<device_index, selected, levels>>
  /\ UNCHANGED <<calc, ui>>

\* AudioRecorder.resume
Resume ==
  /\ ctl.pc = "ready"
  /\ state' = IF state = "PAUSED" THEN "RECORDING" ELSE state
  /\ ctl' = Ready
  /\ last' = Returned(Call("resume", "ready"), "ok")
  /\ UNCHANGED <<quality, stream, frames, queue, lock, thread, cons, cb, file,
                 nDelivered, recvRec>>
  /\ UNCHANGED <<device_index, selected, levels>>
  /\ UNCHANGED <<calc, ui>>

\* AudioRecorder.stop, lines 192-195
Stop ==
  /\ ctl.pc = "ready"
  /\ IF state \in {"RECORDING", "PAUSED"}
       THEN /\ state' = "STOPPED"
            /\ ctl' = Call("stop", "stop_stream")
            /\ last' = <<>>
       ELSE /\ state' = state
            /\ ctl' = Ready
            /\ last' = Returned(Call("stop", "ready"), "ok")
  /\ UNCHANGED <<quality, stream, frames, queue, lock, thread, cons, cb, file,
                 nDelivered, recvRec>>
  /\ UNCHANGED <<device_index, selected, levels>>
  /\ UNCHANGED <<calc, ui>>

\* AudioRecorder.clear, lines 206-208: the call of self.stop() and its
\* lines 194-195
Clear ==
  /\ ctl.pc = "ready"
  /\ IF state \in {"RECORDING", "PAUSED"}
       THEN /\ state' = "STOPPED"
            /\ ctl' = Call("clear", "stop_stream")
       ELSE /\ state' = state
            /\ ctl' = Call("clear", "clear_lock")
  /\ last' = <<>>
  /\ UNCHANGED <<quality, stream, frames, queue, lock, thread, cons, cb, file,
                 nDelivered, recvRec>>
  /\ UNCHANGED <<device_index, selected, levels>>
  /\ UNCHANGED <<calc, ui>>

\* stop() leaving the stream as it is
StopStreamLeavesOpen ==
  /\ ctl.pc = "stop_stream"
  /\ stream' = stream
  /\ ctl' = [ctl EXCEPT !.pc = "stop_join"]
  /\ UNCHANGED <<state, quality, frames, queue, lock, thread, cons, cb, file,
                 nDelivered, recvRec>>
  /\ last' = <<>>
  /\ UNCHANGED <<device_index, selected, levels>>
  /\ UNCHANGED <<calc, ui>>

\* AudioRecorder.stop, lines 197-200: stream.stop() returns once the callback
\* in progress has finished
StopStream ==
  /\ ctl.pc = "stop_stream"
  /\ IF stream # <<>>
       THEN (stream[1].active => cb.pc = "idle") /\ stream' = <<>>
       ELSE stream' = stream
  /\ ctl' = [ctl EXCEPT !.pc = "stop_join"]
  /\ UNCHANGED <<state, quality, frames, queue, lock, thread, cons, cb, file,
                 nDelivered, recvRec>>
  /\ last' = <<>>
  /\ UNCHANGED <<device_index, selected, levels>>
  /\ UNCHANGED <<calc, ui>>

\* what follows stop() in the operation in progress
AfterStop ==
  IF ctl.op = "stop"
    THEN ctl' = Ready /\ last' = Returned(ctl, "ok")
    ELSE ctl' = [ctl EXCEPT !.pc = "clear_lock"] /\ last' = <<>>

\* AudioRecorder.stop, lines 202-204: there is no thread, or join() returns
\* because the thread has ended
StopJoin ==
  /\ ctl.pc = "stop_join"
  /\ thread # 0 => cons[thread].pc = "dead"
  /\ thread' = 0
  /\ AfterStop
  /\ UNCHANGED <<state, quality, stream, frames, queue, lock, cons, cb, file,
                 nDelivered, recvRec>>
  /\ UNCHANGED <<device_index, selected, levels>>
  /\ UNCHANGED <<calc, ui>>

\* AudioRecorder.stop, lines 202-204: join(timeout=1.0) gives up while the
\* thread is still alive
StopJoinTimeout ==
  /\ ctl.pc = "stop_join"
  /\ thread # 0
  /\ cons[thread].pc # "dead"
  /\ thread' = 0
  /\ AfterStop
  /\ UNCHANGED <<state, quality, stream, frames, queue, lock, cons, cb, file,
                 nDelivered, recvRec>>
  /\ UNCHANGED <<device_index, selected, levels>>
  /\ UNCHANGED <<calc, ui>>

\* AudioRecorder.clear, line 209
ClearLock ==
  /\ ctl.pc = "clear_lock"
  /\ lock = 0
  /\ lock' = -1
  /\ ctl' = [ctl EXCEPT !.pc = "clear_reset"]
  /\ UNCHANGED <<state, quality, stream, frames, queue, thread, cons, cb, file,
                 nDelivered, recvRec>>
  /\ last' = <<>>
  /\ UNCHANGED <<device_index, selected, levels>>
  /\ UNCHANGED <<calc, ui>>

\* AudioRecorder.clear, line 210 and the release of the lock
ClearReset ==
  /\ ctl.pc = "clear_reset"
  /\ frames' = <<>>
  /\ lock' = 0
  /\ recvRec' = {}
  /\ ctl' = [ctl EXCEPT !.pc = "clear_idle"]
  /\ UNCHANGED <<state, quality, stream, queue, thread, cons, cb, file,
                 nDelivered>>
  /\ last' = <<>>
  /\ UNCHANGED <<device_index, selected, levels>>
  /\ UNCHANGED <<calc, ui>>

\* AudioRecorder.clear, line 211
ClearIdle ==
  /\ ctl.pc = "clear_idle"
  /\ state' = "IDLE"
  /\ ctl' = Ready
  /\ last' = Returned(ctl, "ok")
  /\ UNCHANGED <<quality, stream, frames, queue, lock, thread, cons, cb, file,
                 nDelivered, recvRec>>
  /\ UNCHANGED <<device_index, selected, levels>>
  /\ UNCHANGED <<calc, ui>>

\* AudioRecorder.get_duration, line 215
DurLock ==
  /\ ctl.pc = "ready"
  /\ lock = 0
  /\ lock' = -1
  /\ ctl' = Call("get_duration", "dur_sum")
  /\ last' = <<>>
  /\ UNCHANGED <<state, quality, stream, frames, queue, thread, cons, cb, file,
                 nDelivered, recvRec>>
  /\ UNCHANGED <<device_index, selected, levels>>
  /\ UNCHANGED <<calc, ui>>

\* get_duration() dividing the number of chunks, not of samples, by the rate
DurSumCountsChunks ==
  /\ ctl.pc = "dur_sum"
  /\ lock' = 0
  /\ ctl' = Ready
  /\ last' = <<[Returned(ctl, "ok")[1] EXCEPT
                  !.dur = <<IF frames = <<>> THEN Seconds(0, 1)
                            ELSE Seconds(Len(frames), quality.sample_rate)>>]>>
  /\ UNCHANGED <<state, quality, stream, frames, queue, thread, cons, cb, file,
                 nDelivered, recvRec>>
  /\ UNCHANGED <<device_index, selected, levels>>
  /\ UNCHANGED <<calc, ui>>

\* AudioRecorder.get_duration, lines 216-219
DurSum ==
  /\ ctl.pc = "dur_sum"
  /\ lock' = 0
  /\ ctl' = Ready
  /\ last' = <<[Returned(ctl, "ok")[1] EXCEPT !.dur = <<GetDuration(frames, quality)>>]>>
  /\ UNCHANGED <<state, quality, stream, frames, queue, thread, cons, cb, file,
                 nDelivered, recvRec>>
  /\ UNCHANGED <<device_index, selected, levels>>
  /\ UNCHANGED <<calc, ui>>

\* AudioRecorder.set_quality
SetQuality ==
  /\ ctl.pc = "ready"
  /\ \E p \in QualityPreset :
       IF state # "IDLE"
         THEN /\ quality' = quality
              /\ last' = Returned(Call("set_quality", "ready"), "RuntimeError_quality")
         ELSE /\ quality' = QUALITY_PRESETS[p]
              /\ last' = Returned(Call("set_quality", "ready"), "ok")
  /\ ctl' = Ready
  /\ UNCHANGED <<state, stream, frames, queue, lock, thread, cons, cb, file,
                 nDelivered, recvRec>>
  /\ UNCHANGED <<device_index, selected, levels>>
  /\ UNCHANGED <<calc, ui>>

\* save() without its test of the state
SaveUnguarded ==
  /\ ctl.pc = "ready"
  /\ \E d \in Dests : ctl' = [Call("save", "save_lock") EXCEPT !.dest = d]
  /\ last' = <<>>
  /\ UNCHANGED <<state, quality, stream, frames, queue, lock, thread, cons, cb,
                 file, nDelivered, recvRec>>
  /\ UNCHANGED <<device_index, selected, levels>>
  /\ UNCHANGED <<calc, ui>>

\* set_device() storing the selection only while the recorder is IDLE
SetDeviceWhenIdle ==
  /\ ctl.pc = "ready"
  /\ \E d \in DeviceIndexes :
       /\ device_index' = IF state = "IDLE" THEN d ELSE device_index
       /\ selected' = d
  /\ ctl' = Ready
  /\ last' = Returned(Call("set_device", "ready"), "ok")
  /\ UNCHANGED <<state, quality, stream, levels, frames, queue, lock, thread, cons, cb,
                 file, nDelivered, recvRec>>
  /\ UNCHANGED <<calc, ui>>

\* AudioRecorder.set_device
SetDevice ==
  /\ ctl.pc = "ready"
  /\ \E d \in DeviceIndexes :
       /\ device_index' = d
       /\ selected' = d
  /\ ctl' = Ready
  /\ last' = Returned(Call("set_device", "ready"), "ok")
  /\ UNCHANGED <<state, quality, stream, levels, frames, queue, lock, thread, cons, cb,
                 file, nDelivered, recvRec>>
  /\ UNCHANGED <<calc, ui>>

\* AudioRecorder.save, lines 231-232
Save ==
  /\ ctl.pc = "ready"
  /\ \E d \in Dests :
       IF state # "STOPPED"
         THEN /\ ctl' = Ready
              /\ last' = Returned(Call("save", "ready"), "RuntimeError_not_stopped")
         ELSE /\ ctl' = [Call("save", "save_lock") EXCEPT !.dest = d]
              /\ last' = <<>>
  /\ UNCHANGED <<state, quality, stream, frames, queue, lock, thread, cons, cb,
                 file, nDelivered, recvRec>>
  /\ UNCHANGED <<device_index, selected, levels>>
  /\ UNCHANGED <<calc, ui>>

\* AudioRecorder.save, line 234
SaveLock ==
  /\ ctl.pc = "save_lock"
  /\ lock = 0
  /\ lock' = -1
  /\ UNCHANGED <<state, quality, stream, frames, queue, thread, cons, cb, file,
                 nDelivered, recvRec>>
  /\ last' = <<>>
  /\ ctl' = [ctl EXCEPT !.pc = "save_concat"]
  /\ UNCHANGED <<device_index, selected, levels>>
  /\ UNCHANGED <<calc, ui>>

\* save() going on to the write without releasing the lock
SaveConcatKeepsLock ==
  /\ ctl.pc = "save_concat"
  /\ lock' = IF frames = <<>> THEN 0 ELSE lock
  /\ IF frames = <<>>
       THEN ctl' = Ready /\ last' = Returned(ctl, "RuntimeError_no_audio")
       ELSE /\ ctl' = [ctl EXCEPT !.pc = "save_write", !.data = <<Concatenate(frames)>>]
            /\ last' = <<>>
  /\ UNCHANGED <<state, quality, stream, frames, queue, thread, cons, cb, file,
                 nDelivered, recvRec>>
  /\ UNCHANGED <<device_index, selected, levels>>
  /\ UNCHANGED <<calc, ui>>

\* AudioRecorder.save, lines 235-239 and the release of the lock
SaveConcat ==
  /\ ctl.pc = "save_concat"
  /\ lock' = 0
  /\ IF frames = <<>>
       THEN ctl' = Ready /\ last' = Returned(ctl, "RuntimeError_no_audio")
       ELSE /\ ctl' = [ctl EXCEPT !.pc = "save_write", !.data = <<Concatenate(frames)>>]
            /\ last' = <<>>
  /\ UNCHANGED <<state, quality, stream, frames, queue, thread, cons, cb, file,
                 nDelivered, recvRec>>
  /\ UNCHANGED <<device_index, selected, levels>>
  /\ UNCHANGED <<calc, ui>>

\* AudioRecorder.save, lines 242-256.  The arguments of sf.write are
\* evaluated first: self._quality.subtype raises AttributeError when the
\* quality object has no such attribute, before anything is written.
SaveWrite ==
  /\ ctl.pc \in {"save_write", "save_reset", "save_idle"}
  /\ CASE ctl.pc = "save_write" ->
            LET filepath == WithSuffixWav(ctl.dest) IN
            /\ IF ~HasAttr(quality, "subtype")
                 THEN /\ ctl' = Ready
                      /\ last' = Returned(ctl, "AttributeError")
                      /\ file' = file
                 ELSE IF ~Writable(filepath)
                 THEN /\ ctl' = Ready
                      /\ last' = Returned(ctl, "OSError")
                      /\ file' = file
                 ELSE /\ file' = <<[path |-> filepath, rate |-> quality.sample_rate,
                                    subtype |-> quality.subtype, data |-> ctl.data[1]]>>
                      /\ ctl' = [ctl EXCEPT !.pc = "save_reset"]
                      /\ last' = <<>>
            /\ UNCHANGED <<state, frames>>
       [] ctl.pc = "save_reset" ->
            /\ frames' = <<>>
            /\ ctl' = [ctl EXCEPT !.pc = "save_idle"]
            /\ last' = <<>>
            /\ UNCHANGED <<state, file>>
       [] ctl.pc = "save_idle" ->
            /\ state' = "IDLE"
            /\ ctl' = Ready
            /\ last' = Returned(ctl, "ok")
            /\ UNCHANGED <<frames, file>>
  /\ UNCHANGED <<quality, stream, queue, lock, thread, cons, cb, nDelivered, recvRec>>
  /\ UNCHANGED <<device_index, selected, levels>>
  /\ UNCHANGED <<calc, ui>>

\* --------------------------------------------------- the delivery callback
\* the callback publishing a level only while the state is RECORDING
DeliverLevelWhenRecording ==
  /\ stream # <<>>
  /\ stream[1].active
  /\ cb.pc = "idle"
  /\ nDelivered < MaxChunks
  /\ nDelivered' = nDelivered + 1
  /\ cb' = [pc |-> "test", chunk |-> [NoChunk EXCEPT !.id = nDelivered + 1,
                                                      !.n = stream[1].blocksize,
                                                      !.rate = stream[1].rate]]
  /\ levels' = IF state = "RECORDING" THEN Append(levels, nDelivered + 1) ELSE levels
  /\ UNCHANGED <<state, quality, stream, frames, queue, lock, thread, cons, ctl,
                 file, recvRec>>
  /\ last' = <<>>
  /\ UNCHANGED <<device_index, selected>>
  /\ UNCHANGED <<calc, ui>>

\* AudioRecorder._audio_callback, lines 112-135: the subsystem hands over the
\* next block of the open stream
Deliver ==
  /\ stream # <<>>
  /\ stream[1].active
  /\ cb.pc = "idle"
  /\ nDelivered < MaxChunks
  /\ nDelivered' = nDelivered + 1
  /\ cb' = [pc |-> "test", chunk |-> [NoChunk EXCEPT !.id = nDelivered + 1,
                                                      !.n = stream[1].blocksize,
                                                      !.rate = stream[1].rate]]
  /\ levels' = Append(levels, nDelivered + 1)
  /\ UNCHANGED <<state, quality, stream, frames, queue, lock, thread, cons, ctl,
                 file, recvRec>>
  /\ last' = <<>>
  /\ UNCHANGED <<device_index, selected>>
  /\ UNCHANGED <<calc, ui>>

\* the callback queues the chunk whatever the state is
CallbackTestUnguarded ==
  /\ cb.pc = "test"
  /\ cb' = [pc |-> "put", chunk |-> [cb.chunk EXCEPT !.rs = state]]
  /\ recvRec' = IF state = "RECORDING" THEN recvRec \cup {cb.chunk.id} ELSE recvRec
  /\ UNCHANGED <<state, quality, stream, frames, queue, lock, thread, cons, ctl,
                 file, nDelivered>>
  /\ last' = <<>>
  /\ UNCHANGED <<device_index, selected, levels>>
  /\ UNCHANGED <<calc, ui>>

\* AudioRecorder._audio_callback, line 138: the state the callback reads is
\* the state the chunk is received in (rs)
CallbackTest ==
  /\ cb.pc = "test"
  /\ cb' = IF state = "RECORDING"
             THEN [pc |-> "put", chunk |-> [cb.chunk EXCEPT !.rs = state]]
             ELSE CbIdle
  /\ recvRec' = IF state = "RECORDING" THEN recvRec \cup {cb.chunk.id} ELSE recvRec
  /\ UNCHANGED <<state, quality, stream, frames, queue, lock, thread, cons, ctl,
                 file, nDelivered>>
  /\ last' = <<>>
  /\ UNCHANGED <<device_index, selected, levels>>
  /\ UNCHANGED <<calc, ui>>

\* the callback handing the chunk over only when the buffer lock is free
CallbackPutUnderLock ==
  /\ cb.pc = "put"
  /\ lock = 0
  /\ queue' = Append(queue, cb.chunk)
  /\ cb' = CbIdle
  /\ UNCHANGED <<state, quality, stream, frames, lock, thread, cons, ctl,
                 file, nDelivered, recvRec>>
  /\ last' = <<>>
  /\ UNCHANGED <<device_index, selected, levels>>
  /\ UNCHANGED <<calc, ui>>

\* AudioRecorder._audio_callback, line 139
CallbackPut ==
  /\ cb.pc = "put"
  /\ queue' = Append(queue, cb.chunk)
  /\ cb' = CbIdle
  /\ UNCHANGED <<state, quality, stream, frames, lock, thread, cons, ctl,
                 file, nDelivered, recvRec>>
  /\ last' = <<>>
  /\ UNCHANGED <<device_index, selected, levels>>
  /\ UNCHANGED <<calc, ui>>

\* ---------------------------------------------------- the consumer threads
\* AudioRecorder._recording_loop, line 143
LoopTest(t) ==
  /\ cons[t].pc = "loop"
  /\ cons' = [cons EXCEPT ![t] = IF state \in {"RECORDING", "PAUSED"}
                                    THEN [pc |-> "get", data |-> NoChunk]
                                    ELSE Dead]
  /\ UNCHANGED <<state, quality, stream, frames, queue, lock, thread, cb, ctl,
                 file, nDelivered, recvRec>>
  /\ last' = <<>>
  /\ UNCHANGED <<device_index, selected, levels>>
  /\ UNCHANGED <<calc, ui>>

\* AudioRecorder._recording_loop, lines 145 and 149-150: get(timeout=0.1)
\* returns the head of the queue, or raises queue.Empty after the timeout
LoopGet(t) ==
  /\ cons[t].pc = "get"
  /\ IF queue # <<>>
       THEN /\ cons' = [cons EXCEPT ![t] = [pc |-> "test", data |-> Head(queue)]]
            /\ queue' = Tail(queue)
       ELSE /\ cons' = [cons EXCEPT ![t] = [pc |-> "loop", data |-> NoChunk]]
            /\ queue' = queue
  /\ UNCHANGED <<state, quality, stream, frames, lock, thread, cb, ctl,
                 file, nDelivered, recvRec>>
  /\ last' = <<>>
  /\ UNCHANGED <<device_index, selected, levels>>
  /\ UNCHANGED <<calc, ui>>

\* AudioRecorder._recording_loop, line 146
LoopStateTest(t) ==
  /\ cons[t].pc = "test"
  /\ cons' = [cons EXCEPT ![t] = IF state = "RECORDING"
                                    THEN [@ EXCEPT !.pc = "lock"]
                                    ELSE [pc |-> "loop", data |-> NoChunk]]
  /\ UNCHANGED <<state, quality, stream, frames, queue, lock, thread, cb, ctl,
                 file, nDelivered, recvRec>>
  /\ last' = <<>>
  /\ UNCHANGED <<device_index, selected, levels>>
  /\ UNCHANGED <<calc, ui>>

\* AudioRecorder._recording_loop, line 147
LoopLock(t) ==
  /\ cons[t].pc = "lock"
  /\ lock = 0
  /\ lock' = t
  /\ cons' = [cons EXCEPT ![t].pc = "append"]
  /\ UNCHANGED <<state, quality, stream, frames, queue, thread, cb, ctl,
                 file, nDelivered, recvRec>>
  /\ last' = <<>>
  /\ UNCHANGED <<device_index, selected, levels>>
  /\ UNCHANGED <<calc, ui>>

\* the consumer replaces the buffer by the new chunk instead of appending
LoopAppendReplaces(t) ==
  /\ cons[t].pc = "append"
  /\ frames' = <<cons[t].data>>
  /\ lock' = 0
  /\ cons' = [cons EXCEPT ![t] = [pc |-> "loop", data |-> NoChunk]]
  /\ UNCHANGED <<state, quality, stream, queue, thread, cb, ctl,
                 file, nDelivered, recvRec>>
  /\ last' = <<>>
  /\ UNCHANGED <<device_index, selected, levels>>
  /\ UNCHANGED <<calc, ui>>

\* AudioRecorder._recording_loop, line 148 and the release of the lock
LoopAppend(t) ==
  /\ cons[t].pc = "append"
  /\ frames' = Append(frames, cons[t].data)
  /\ lock' = 0
  /\ cons' = [cons EXCEPT ![t] = [pc |-> "loop", data |-> NoChunk]]
  /\ UNCHANGED <<state, quality, stream, queue, thread, cb, ctl,
                 file, nDelivered, recvRec>>
  /\ last' = <<>>
  /\ UNCHANGED <<device_index, selected, levels>>
  /\ UNCHANGED <<calc, ui>>

Consumer == \E t \in Threads :
  LoopTest(t) \/ LoopGet(t) \/ LoopStateTest(t) \/ LoopLock(t) \/ LoopAppend(t)

Next ==
  \/ Start \/ StartDrain \/ StartOpen \/ StartThread
  \/ Pause \/ Resume
  \/ Stop \/ Clear \/ StopStream \/ StopJoin \/ StopJoinTimeout
  \/ ClearLock \/ ClearReset \/ ClearIdle
  \/ DurLock \/ DurSum
  \/ SetQuality \/ SetDevice
  \/ Save \/ SaveLock \/ SaveConcat \/ SaveWrite
  \/ Deliver \/ CallbackTest \/ CallbackPut
  \/ Consumer

Spec == Init /\ [][Next]_vars

\* the steps of the control operation in progress
ControlStep ==
  \/ StartDrain \/ StartOpen \/ StartThread
  \/ StopStream \/ StopJoin \/ StopJoinTimeout
  \/ ClearLock \/ ClearReset \/ ClearIdle
  \/ DurSum \/ SaveLock \/ SaveConcat \/ SaveWrite

\* the steps of the callback in progress
CallbackStep == CallbackTest \/ CallbackPut

\* the steps of consumer t that do not wait for the lock
LoopStep(t) == LoopTest(t) \/ LoopGet(t) \/ LoopStateTest(t) \/ LoopAppend(t)

\* the recorder with the profile and the device left as they were at
\* construction: neither has a part in how the threads end
NextFair ==
  \/ Start \/ StartDrain \/ StartOpen \/ StartThread
  \/ Pause \/ Resume
  \/ Stop \/ Clear \/ StopStream \/ StopJoin \/ StopJoinTimeout
  \/ ClearLock \/ ClearReset \/ ClearIdle
  \/ DurLock \/ DurSum
  \/ Save \/ SaveLock \/ SaveConcat \/ SaveWrite
  \/ Deliver \/ CallbackTest \/ CallbackPut
  \/ Consumer

\* fair scheduling: a thread that can take a step takes one, and a thread
\* that waits for the lock gets it if the lock is free again and again; the
\* calls of the control operations themselves are up to the user
FairSpec ==
  /\ Init /\ [][NextFair]_vars
  /\ WF_vars(ControlStep)
  /\ WF_vars(CallbackStep)
  /\ \A t \in Threads : WF_vars(LoopStep(t)) /\ SF_vars(LoopLock(t))

TypeOK ==
  /\ state \in RecordingState
  /\ lock \in {-1, 0} \cup Threads
  /\ thread \in {0} \cup Threads
  /\ Len(stream) <= 1
  /\ nDelivered \in 0..MaxChunks

\* ------------------------------- the level computation of the callback
\* the recorder's variables, which the functions below do not touch
recorderVars == <<state, quality, stream, device_index, selected, levels, frames,
                  queue, lock, thread, cons, cb, ctl, file, nDelivered, recvRec, last,
                  ui>>

\* QualitySettings.sample_width: 2 in every preset; 1 is the 8-bit case that
\* _audio_callback provides for
SampleWidths == {1, 2}

\* sample values of a block: unsigned for 8-bit data, signed for 16-bit data
SampleValues(width) == IF width = 1 THEN {0, 127, 128, 255} ELSE {-3000, -1, 0, 3000}

\* the blocks of 1 to MaxSamples samples
Blocks(width) == UNION {[1..n -> SampleValues(width)] : n \in 1..MaxSamples}

RECURSIVE SumSquares(_, _)
\* sum((indata - offset) ** 2)
SumSquares(indata, offset) ==
  IF indata = <<>> THEN 0
  ELSE (Head(indata) - offset) * (Head(indata) - offset) + SumSquares(Tail(indata), offset)

\* the value 20 * np.log10(rms / max_val) for rms = sqrt(sumsq / count), kept
\* as the term it is computed from
Log10Db(sumsq, count, max_val) ==
  [kind |-> "20log10(rms/max_val)", sumsq |-> sumsq, count |-> count,
   max_val |-> max_val, db |-> 0]

\* a level that is a constant
ConstDb(db) == [kind |-> "const", sumsq |-> 0, count |-> 0, max_val |-> 0, db |-> db]

\* the level computed without the test for a zero rms
LevelOfNoFloor(indata, width) ==
  LET offset  == IF width = 1 THEN 128 ELSE 0
      max_val == IF width = 1 THEN 128 ELSE 32768
      sumsq   == SumSquares(indata, offset)
  IN  Log10Db(sumsq, Len(indata), max_val)

\* _audio_callback, lines 122-134: the level published for the block indata
\* under a profile of the given sample width.  rms = sqrt(mean(...)) is
\* positive exactly when the sum of squares is.
LevelOf(indata, width) ==
  LET offset  == IF width = 1 THEN 128 ELSE 0
      max_val == IF width = 1 THEN 128 ELSE 32768
      sumsq   == SumSquares(indata, offset)
  IN  IF sumsq > 0 THEN Log10Db(sumsq, Len(indata), max_val) ELSE ConstDb(-100)

\* _audio_callback, lines 118-135, on one delivered block
PublishLevel ==
  /\ \E width \in SampleWidths : \E indata \in Blocks(width) :
       calc' = <<[fn |-> "level", width |-> width, indata |-> indata,
                  out |-> LevelOf(indata, width)]>>
  /\ UNCHANGED recorderVars

SpecLevel == Init /\ [][PublishLevel]_vars

\* ------------------------------------------------------- Settings.load
\* the fields of the Settings dataclass
SettingsFields == {"default_save_path", "preferred_device", "quality_preset"}

\* Settings(): every field at its default
DefaultSettings ==
  [default_save_path |-> "DEFAULT_SAVE_PATH", preferred_device |-> "None",
   quality_preset |-> DEFAULT_QUALITY_PRESET]

\* keys and values of the JSON objects tried; "theme" is not a field, "hifi"
\* names no preset
JsonKeys == SettingsFields \cup {"theme"}
JsonValues == {"standard", "maximum", "hifi", "None"}

\* what may be at the path of the settings file: nothing; bytes that are not
\* text in the locale's encoding; text that is not JSON; a JSON document that
\* is not an object; a JSON object
ConfigFiles ==
  [kind : {"missing", "undecodable", "not_json", "json_array", "json_null"},
   data : {<<>>}]
  \cup [kind : {"json_object"},
        data : UNION {[K -> JsonValues] : K \in SUBSET JsonKeys}]

\* open() and json.load(f), lines 107-108: the exception raised, or "none"
JsonLoad(f) ==
  CASE f.kind = "undecodable" -> "UnicodeDecodeError"
    [] f.kind = "not_json"    -> "JSONDecodeError"
    [] OTHER                  -> "none"

\* cls(**data), line 109: the exception raised, or "none"
Construct(f) ==
  IF f.kind # "json_object" THEN "TypeError"
  ELSE IF ~(DOMAIN f.data \subseteq SettingsFields) THEN "TypeError"
  ELSE "none"

\* cls(**data) when it succeeds: the stored fields, the others at their default
Constructed(data) ==
  [k \in SettingsFields |-> IF k \in DOMAIN data THEN data[k] ELSE DefaultSettings[k]]

\* the exceptions load() handles, line 110
LoadCatches == {"JSONDecodeError", "TypeError", "KeyError"}

\* Settings.load: the exception that leaves it ("none" when it returns) and
\* the settings it returns
Load(f) ==
  IF f.kind = "missing" THEN [raised |-> "none", settings |-> DefaultSettings]
  ELSE LET e == IF JsonLoad(f) # "none" THEN JsonLoad(f) ELSE Construct(f)
       IN  IF e = "none" THEN [raised |-> "none", settings |-> Constructed(f.data)]
           ELSE IF e \in LoadCatches
                  THEN [raised |-> "none", settings |-> DefaultSettings]
                  ELSE [raised |-> e, settings |-> DefaultSettings]

\* Settings.get_quality_preset: QualityPreset(value) raises ValueError for a
\* value that is no preset's
get_quality_preset(settings) ==
  IF settings.quality_preset \in QualityPreset
    THEN settings.quality_preset
    ELSE DEFAULT_QUALITY_PRESET

\* MainWindow.__init__: Settings.load() and, when it returned, the preset the
\* settings resolve to
LoadSettings ==
  /\ \E f \in ConfigFiles :
       LET r == Load(f)
       IN  calc' = <<[fn |-> "load", file |-> f, raised |-> r.raised,
                      settings |-> r.settings,
                      preset |-> get_quality_preset(r.settings)]>>
  /\ UNCHANGED recorderVars

SpecSettings == Init /\ [][LoadSettings]_vars

\* ----------------------------------------------------- the main window
\* the attributes of a QualitySettings instance: the fields of the dataclass
\* and its two properties
QualitySettingsAttrs ==
  {"name", "sample_rate", "mp3_bitrate", "description", "max_duration_str",
   "sample_width", "dtype", "bytes_per_second_mp3", "max_duration_seconds"}

\* MainWindow._on_record: a click on Record, which the button takes while it
\* is enabled, calls recorder.start(); volume_meter.reset() touches the meter
\* only
OnRecord ==
  /\ ~ui.closed
  /\ ui.record_btn
  /\ Start

\* MainWindow._update_ui, lines 547-557: the controls set from the state read
\* at line 518
ButtonStates(u, st) ==
  [u EXCEPT !.record_btn    = (st = "IDLE"),
            !.pause_btn     = (st \in {"RECORDING", "PAUSED"}),
            !.stop_btn      = (st \in {"RECORDING", "PAUSED"}),
            !.clear_btn     = (st \in {"RECORDING", "PAUSED", "STOPPED"}),
            !.quality_combo = (st = "IDLE"),
            !.save_frame    = (st = "STOPPED")]

\* MainWindow._update_ui, run by the timer whenever the main thread is in an
\* event loop: the window's own, or that of the discard prompt.  Only the
\* main thread writes the state, so the state read at line 518 is the state
\* throughout; get_duration() (line 519) takes and releases the buffer lock;
\* line 528 reads quality.bytes_per_second, which raises AttributeError for
\* an object without that attribute, and then lines 529-567 are not executed
UpdateUi ==
  /\ ~ui.closed
  /\ ctl.pc \in {"ready", "close_prompt"}
  /\ lock = 0
  /\ IF "bytes_per_second" \in QualitySettingsAttrs
       THEN /\ ui' = ButtonStates(ui, state)
            /\ last' = <<[op |-> "_update_ui", st0 |-> state, out |-> "ok",
                          dur |-> <<GetDuration(frames, quality)>>]>>
       ELSE /\ ui' = ui
            /\ last' = <<[op |-> "_update_ui", st0 |-> state,
                          out |-> "AttributeError", dur |-> <<>>]>>
  /\ UNCHANGED <<state, quality, stream, device_index, selected, levels, frames,
                 queue, lock, thread, cons, cb, ctl, file, nDelivered, recvRec,
                 calc>>

\* MainWindow.closeEvent, lines 660-666: the test of the state and, when it
\* is not IDLE, the discard prompt opens; in IDLE line 671 enters clear(),
\* whose call of stop() returns at once (audio.py lines 194-195)
CloseEvent ==
  /\ ~ui.closed
  /\ ctl.pc = "ready"
  /\ IF state # "IDLE"
       THEN ctl' = Call("closeEvent", "close_prompt")
       ELSE ctl' = Call("closeEvent", "clear_lock")
  /\ last' = <<>>
  /\ UNCHANGED <<state, quality, stream, device_index, selected, levels, frames,
                 queue, lock, thread, cons, cb, file, nDelivered, recvRec,
                 calc, ui>>

\* the answers the prompt of closeEvent offers (line 665)
Replies == {"Yes", "No"}

\* MainWindow.closeEvent, lines 667-671: on No the event is ignored and the
\* handler returns; otherwise clear() is entered (audio.py lines 208 and
\* 194-196)
CloseReply ==
  /\ ctl.pc = "close_prompt"
  /\ \E reply \in Replies :
       IF reply = "No"
         THEN /\ state' = state
              /\ ctl' = Ready
              /\ last' = Returned(ctl, "ignored")
         ELSE /\ IF state \in {"RECORDING", "PAUSED"}
                   THEN /\ state' = "STOPPED"
                        /\ ctl' = [ctl EXCEPT !.pc = "stop_stream"]
                   ELSE /\ state' = state
                        /\ ctl' = [ctl EXCEPT !.pc = "clear_lock"]
              /\ last' = <<>>
  /\ UNCHANGED <<quality, stream, device_index, selected, levels, frames,
                 queue, lock, thread, cons, cb, file, nDelivered, recvRec,
                 calc, ui>>

\* the last line of clear() as closeEvent called it (audio.py line 211),
\* then ui.py line 672: event.accept(), which closes the window
CloseAccept ==
  /\ ctl.pc = "clear_idle"
  /\ ctl.op = "closeEvent"
  /\ state' = "IDLE"
  /\ ctl' = Ready
  /\ last' = Returned(ctl, "accepted")
  /\ ui' = [ui EXCEPT !.closed = TRUE]
  /\ UNCHANGED <<quality, stream, device_index, selected, levels, frames,
                 queue, lock, thread, cons, cb, file, nDelivered, recvRec,
                 calc>>

\* the window on top of the recorder.  Of the handlers that call the
\* recorder, those of Pause, Stop and Clear and those of the save controls
\* run only after _update_ui has enabled or shown their widget; the profile
\* and the device are left as they were at construction
NextUi ==
  \/ OnRecord \/ StartDrain \/ StartOpen \/ StartThread
  \/ UpdateUi
  \/ CloseEvent \/ CloseReply
  \/ StopStream \/ StopJoin \/ StopJoinTimeout
  \/ ClearLock \/ ClearReset \/ CloseAccept
  \/ Deliver \/ CallbackTest \/ CallbackPut
  \/ Consumer

SpecUi == Init /\ [][NextUi]_vars

\* ------------------------------------------------------------ properties
IsPrefix(a, b) == Len(a) <= Len(b) /\ SubSeq(b, 1, Len(a)) = a

BufferIds == {frames[i].id : i \in 1..Len(frames)}

\* a control operation returned or raised in the step just taken
Ret(op) == last # <<>> /\ last[1].op = op

\* the step returns from (or raises in) save()
SaveReturns == last' # <<>> /\ last'[1].op = "save"

\* the table of C1: the state in which op leaves a recorder that was in s
Transition(op, s) ==
  CASE op = "start"  -> IF s = "IDLE" THEN "RECORDING" ELSE s
    [] op = "pause"  -> IF s = "RECORDING" THEN "PAUSED" ELSE s
    [] op = "resume" -> IF s = "PAUSED" THEN "RECORDING" ELSE s
    [] op = "stop"   -> IF s \in {"RECORDING", "PAUSED"} THEN "STOPPED" ELSE s
    [] op = "clear"  -> "IDLE"

\* C1: when start, pause, resume, stop or clear returns normally, the state
\* is the one the transition table gives for the state the operation was
\* called in.
C1_TransitionTable ==
  (last # <<>> /\ last[1].out = "ok"
     /\ last[1].op \in {"start", "pause", "resume", "stop", "clear"})
  => state = Transition(last[1].op, last[1].st0)

C1_Witness == Ret("stop") /\ last[1].st0 = "PAUSED" /\ last[1].out = "ok" /\ state = "STOPPED"

\* C2: save() called in IDLE, RECORDING or PAUSED raises the invalid-state
\* error in that very step and changes neither the state, nor the buffer,
\* nor the stream.
C2_SaveNotStopped ==
  [][(SaveReturns /\ last'[1].st0 # "STOPPED")
       => /\ ctl.pc = "ready"
          /\ last'[1].out = "RuntimeError_not_stopped"
          /\ state' = state /\ frames' = frames /\ stream' = stream]_vars

C2_Witness ==
  /\ Ret("save") /\ last[1].st0 = "PAUSED" /\ last[1].out = "RuntimeError_not_stopped"
  /\ state = "PAUSED" /\ frames # <<>> /\ stream # <<>>

\* C3: save() called in STOPPED with a non-empty buffer and a writable
\* destination returns normally, with the buffer empty and the state IDLE.
C3_SaveSucceeds ==
  [][(SaveReturns /\ last'[1].st0 = "STOPPED" /\ ctl.f0 # <<>>
        /\ Writable(WithSuffixWav(ctl.dest)))
       => last'[1].out = "ok" /\ frames' = <<>> /\ state' = "IDLE"]_vars

\* C4: save() called in STOPPED with a non-empty buffer on a destination
\* that cannot be written raises the failure of the write, and leaves the
\* state STOPPED and the buffer as it was before the call.
C4_WriteFailureSurfaces ==
  [][(SaveReturns /\ last'[1].st0 = "STOPPED" /\ ctl.f0 # <<>>
        /\ ~Writable(WithSuffixWav(ctl.dest)))
       => last'[1].out = "OSError" /\ state' = "STOPPED" /\ frames' = ctl.f0]_vars

\* C5: save() called in STOPPED with an empty buffer raises the empty-buffer
\* error, writes no file and leaves the state STOPPED and the buffer empty.
C5_SaveEmptyBuffer ==
  [][(SaveReturns /\ last'[1].st0 = "STOPPED" /\ ctl.f0 = <<>>)
       => /\ last'[1].out = "RuntimeError_no_audio"
          /\ file' = file /\ state' = "STOPPED" /\ frames' = <<>>]_vars

\* C6: save() called in STOPPED with N > 0 buffered samples on a writable
\* destination leaves there a file of N samples, those of the buffered
\* chunks in buffer order, at the active profile's sample rate.
C6_FileIsConcatenation ==
  [][(SaveReturns /\ last'[1].st0 = "STOPPED" /\ ctl.f0 # <<>>
        /\ Writable(WithSuffixWav(ctl.dest)))
       => /\ file' # <<>>
          /\ file'[1].path = WithSuffixWav(ctl.dest)
          /\ file'[1].rate = quality.sample_rate
          /\ file'[1].data.n = TotalFrames(ctl.f0)
          /\ file'[1].data.src = [i \in 1..Len(ctl.f0) |-> ctl.f0[i].id]]_vars

\* C7: when stop() returns from a call in RECORDING or PAUSED, every chunk
\* the callback received in RECORDING since the start() is in the buffer.
C7_NoChunkLost ==
  (Ret("stop") /\ last[1].st0 \in {"RECORDING", "PAUSED"}) => recvRec \subseteq BufferIds

\* C8: no chunk that the callback received while the state was not
\* RECORDING is ever in the buffer.
C8_OnlyRecordingChunks ==
  \A i \in 1..Len(frames) : frames[i].rs = "RECORDING"

\* chunk 2 was received after chunk 1 and not in RECORDING; recording has
\* resumed and the buffer holds chunk 1 only
C8_Witness ==
  /\ nDelivered = 2 /\ recvRec = {1} /\ cb.pc = "idle"
  /\ state = "RECORDING" /\ BufferIds = {1}
  /\ Ret("resume") /\ last[1].st0 = "PAUSED"

\* no control operation other than get_duration is in progress
BetweenOperations(c) == c.pc \in {"ready", "dur_sum"}

\* C9: between control operations, while the state stays PAUSED or stays
\* STOPPED, no step changes the duration get_duration() reports.
C9_ConstantWhileNotRecording ==
  [][(state \in {"PAUSED", "STOPPED"} /\ state' = state
        /\ BetweenOperations(ctl) /\ BetweenOperations(ctl'))
       => GetDuration(frames', quality') = GetDuration(frames, quality)]_vars

\* C10: while the state stays RECORDING, every step leaves the buffer as it
\* was or with chunks appended, so the duration get_duration() reports does
\* not decrease.
C10_MonotoneWhileRecording ==
  [][(state = "RECORDING" /\ state' = "RECORDING")
       => /\ IsPrefix(frames, frames')
          /\ DurLeq(GetDuration(frames, quality), GetDuration(frames', quality'))]_vars

C10_Witness ==
  /\ Ret("get_duration") /\ state = "RECORDING" /\ Len(frames) = 2
  /\ last[1].dur = <<Seconds(2 * BlockSize(quality.sample_rate), quality.sample_rate)>>

\* the step returns from (or raises in) op
Returns(op) == last' # <<>> /\ last'[1].op = op

RECURSIVE SamplesUpTo(_, _)
\* the number of samples in the first k chunks of fr
SamplesUpTo(fr, k) == IF k = 0 THEN 0 ELSE SamplesUpTo(fr, k - 1) + fr[k].n

\* the duration of the buffer fr at rate: total samples / rate, 0.0 when empty
BufferSeconds(fr, rate) ==
  IF Len(fr) = 0 THEN Seconds(0, 1) ELSE Seconds(SamplesUpTo(fr, Len(fr)), rate)

\* C11: get_duration() returns normally in whatever state it is called, with
\* the total number of samples of the chunks in the buffer divided by the
\* active profile's sample rate (0.0 for the empty buffer), and the buffer
\* does not change between its taking of the lock and its return.
C11_DurationOfSnapshot ==
  /\ [][Returns("get_duration")
          => /\ last'[1].out = "ok"
             /\ last'[1].dur = <<BufferSeconds(frames', quality'.sample_rate)>>
             /\ frames' = frames /\ frames = ctl.f0]_vars
  /\ [][ctl.pc = "dur_sum" => frames' = frames]_vars

C11_Witness ==
  /\ Ret("get_duration") /\ last[1].st0 = "STOPPED" /\ state = "STOPPED"
  /\ Len(frames) = 2 /\ quality.sample_rate = 8000
  /\ last[1].dur = <<Seconds(1600, 8000)>>

\* C12: start() called in a state other than IDLE returns normally in that
\* very step and leaves the state, the buffer, the stream, the queue and the
\* consumer threads as they were.
C12_StartNotIdleNoOp ==
  [][(Returns("start") /\ last'[1].st0 # "IDLE")
       => /\ ctl.pc = "ready"
          /\ last'[1].out = "ok"
          /\ UNCHANGED <<state, frames, stream, queue, thread, cons>>]_vars

C12_Witness ==
  /\ Ret("start") /\ last[1].st0 = "PAUSED" /\ last[1].out = "ok"
  /\ state = "PAUSED" /\ frames # <<>> /\ stream # <<>> /\ thread # 0

\* C13: when start() called in IDLE returns normally, the state is RECORDING,
\* a started stream is open on one channel at the active profile's sample
\* rate, and no chunk that was in the buffer at the call is in the buffer.
C13_StartFromIdle ==
  [][(Returns("start") /\ last'[1].st0 = "IDLE" /\ last'[1].out = "ok")
       => /\ state' = "RECORDING"
          /\ stream' # <<>> /\ stream'[1].active
          /\ stream'[1].channels = 1
          /\ stream'[1].rate = quality'.sample_rate
          /\ \A i \in 1..Len(frames') : \A j \in 1..Len(ctl.f0) :
                frames'[i].id # ctl.f0[j].id]_vars

C13_Witness ==
  /\ Ret("start") /\ last[1].st0 = "IDLE" /\ last[1].out = "ok"
  /\ state = "RECORDING" /\ nDelivered >= 1 /\ frames = <<>>
  /\ quality.sample_rate = 8000 /\ stream # <<>> /\ stream[1].rate = 8000

\* C14: when stop() called in RECORDING or PAUSED returns, no stream is open,
\* the state is STOPPED, and the buffer begins with the chunks it held at the
\* call, in the same order.
C14_StopKeepsBuffer ==
  [][(Returns("stop") /\ last'[1].st0 \in {"RECORDING", "PAUSED"})
       => /\ stream' = <<>>
          /\ state' = "STOPPED"
          /\ IsPrefix(ctl.f0, frames')]_vars

C14_Witness ==
  /\ Ret("stop") /\ last[1].st0 = "RECORDING" /\ last[1].out = "ok"
  /\ state = "STOPPED" /\ stream = <<>> /\ Len(frames) = 2

\* C15: when clear() returns, from whatever state it was called in, no stream
\* is open, the buffer is empty, the state is IDLE and the duration is 0.0;
\* and an empty buffer stays empty for as long as the state stays IDLE.
C15_ClearResets ==
  /\ [][Returns("clear")
          => /\ last'[1].out = "ok"
             /\ stream' = <<>> /\ frames' = <<>> /\ state' = "IDLE"
             /\ GetDuration(frames', quality') = Seconds(0, 1)]_vars
  /\ [][(state = "IDLE" /\ state' = "IDLE" /\ frames = <<>>) => frames' = <<>>]_vars

\* C16: at every moment the levels published so far are those of the chunks
\* delivered so far, one for each chunk and in delivery order, whatever the
\* state was at each delivery.
C16_OneLevelPerChunk == levels = [i \in 1..nDelivered |-> i]

\* chunk 2 was delivered while PAUSED: its level is published, the buffer
\* holds chunk 1 only
C16_Witness ==
  /\ state = "PAUSED" /\ cb.pc = "test" /\ cb.chunk.id = 2
  /\ levels = <<1, 2>> /\ BufferIds = {1} /\ queue = <<>>
  /\ \A t \in Threads : cons[t].data = NoChunk

\* C17: set_quality() called in a state other than IDLE raises and leaves the
\* profile, the state and the buffer as they were, and called in IDLE it
\* succeeds; no step changes the profile while the state is not IDLE; and
\* every chunk in the buffer was captured at the active profile's sample rate.
C17_QualityOnlyInIdle ==
  /\ [][Returns("set_quality")
          => /\ ctl.pc = "ready"
             /\ IF last'[1].st0 = "IDLE"
                  THEN last'[1].out = "ok"
                  ELSE /\ last'[1].out = "RuntimeError_quality"
                       /\ UNCHANGED <<quality, state, frames>>]_vars
  /\ [][state # "IDLE" => quality' = quality]_vars
  /\ [](\A i \in 1..Len(frames) : frames[i].rate = quality.sample_rate)

\* C18: set_device() returns normally in whatever state it is called, in that
\* very step, and leaves the state, the buffer, the profile and the open
\* stream (its device included) as they were; and the stream that a start()
\* has opened when it returns uses the device selected last.
C18_DeviceOnNextStart ==
  /\ [][Returns("set_device")
          => /\ ctl.pc = "ready"
             /\ last'[1].out = "ok"
             /\ UNCHANGED <<state, frames, quality, stream, queue, thread, cons>>]_vars
  /\ [][(Returns("start") /\ last'[1].st0 = "IDLE" /\ last'[1].out = "ok")
          => stream'[1].device = selected']_vars

\* device 1 is selected while a stream is open on the default device
C18_Witness ==
  /\ Ret("set_device") /\ last[1].st0 = "RECORDING" /\ state = "RECORDING"
  /\ selected = 1 /\ stream # <<>> /\ stream[1].device = 0 /\ frames # <<>>

\* a started input stream is open
LiveStream == stream # <<>> /\ stream[1].active

\* C19: whenever no control operation is in progress, a live stream is open
\* exactly when the state is RECORDING or PAUSED.
C19_StreamIffCapturing ==
  ctl.pc = "ready" => (LiveStream <=> state \in {"RECORDING", "PAUSED"})

\* C20: whenever the state is IDLE and no control operation other than
\* get_duration is in progress, the buffer is empty.
C20_IdleBufferEmpty ==
  (BetweenOperations(ctl) /\ state = "IDLE") => frames = <<>>

\* C21: the chunks in the buffer are in the order in which the callback
\* received them (chunk ids number the deliveries): the buffer is an
\* order-preserving subsequence of the delivered chunks.
C21_BufferInArrivalOrder ==
  /\ \A i \in 1..Len(frames) : frames[i].id \in 1..nDelivered
  /\ \A i, j \in 1..Len(frames) : i < j => frames[i].id < frames[j].id

\* C29: at every moment at most one consumer thread is alive.
C29_OneConsumerAlive ==
  Cardinality({t \in Threads : cons[t].pc # "dead"}) <= 1

\* C30: while a session is under way (RECORDING or PAUSED), every chunk in
\* the buffer was received by the callback since the start() of that session.
C30_NoChunkOfEarlierSession ==
  state \in {"RECORDING", "PAUSED"} => BufferIds \subseteq recvRec

\* C22: for the active preset, whichever of the three it is,
\* max_duration_seconds is the integer floor of 20 MiB divided by the bytes
\* per second of the file save() writes, so that many seconds of saved audio
\* do not exceed 20 MiB.
C22_MaxDurationFitsLimit ==
  /\ max_duration_seconds(quality)
       = (20 * 1024 * 1024) \div SavedBytesPerSecond(quality)
  /\ max_duration_seconds(quality) * SavedBytesPerSecond(quality) <= 20 * 1024 * 1024

\* a level was computed in the step just taken
LevelCall == calc # <<>> /\ calc[1].fn = "level"

\* the samples of block x as deviations from silence: 8-bit data is centered
\* at 128
Centered(x, width) == [i \in 1..Len(x) |-> IF width = 1 THEN x[i] - 128 ELSE x[i]]

RECURSIVE SquaresUpTo(_, _)
SquaresUpTo(c, k) == IF k = 0 THEN 0 ELSE SquaresUpTo(c, k - 1) + c[k] * c[k]

LoadCall == calc # <<>> /\ calc[1].fn = "load"

\* the file is there and is not a JSON object with the known fields only
Malformed(f) ==
  \/ f.kind \in {"undecodable", "not_json", "json_array", "json_null"}
  \/ f.kind = "json_object" /\ ~(DOMAIN f.data \subseteq SettingsFields)

\* C24: Settings.load raises nothing; for a missing file and for a malformed
\* one (not JSON, or not a JSON object with the known fields) it returns the
\* default settings; and a stored preset identifier that names no preset
\* resolves to the default preset.
C24_LoadFallsBack ==
  LoadCall =>
    /\ calc[1].raised = "none"
    /\ (calc[1].file.kind = "missing" \/ Malformed(calc[1].file))
         => calc[1].settings = DefaultSettings
    /\ calc[1].settings.quality_preset \notin {"standard", "extended", "maximum"}
         => calc[1].preset = "extended"

\* the step is an access of the control thread to the buffer: line 157 of
\* start(), line 210 of clear(), lines 216-218 of get_duration(), lines
\* 235-239 and line 253 of save()
ControlTouchesBuffer ==
  /\ ctl' # ctl
  /\ \/ ctl.pc = "ready" /\ ctl'.pc = "start_drain"
     \/ ctl.pc \in {"clear_reset", "dur_sum", "save_concat", "save_reset"}

\* C25: every step that reads or writes the buffer is taken by a thread that
\* holds the buffer lock.
C25_BufferUnderLock ==
  [][/\ ControlTouchesBuffer => lock = -1
     /\ \A t \in Threads : (cons[t].pc = "append" /\ cons'[t] # cons[t]) => lock = t]_vars

\* C26: the control thread does not hold the buffer lock at the file write
\* of save(), at the opening, stopping or closing of the stream or at the
\* join of stop(), and no consumer holds it at its timed wait on the queue.
C26_NoLockAcrossBlocking ==
  /\ ctl.pc \in {"save_write", "start_open", "stop_stream", "stop_join"} => lock # -1
  /\ \A t \in Threads : cons[t].pc = "get" => lock # t

\* stop() waits in join() for the consumer thread, which holds the lock for
\* its append
C26_Witness ==
  /\ ctl.pc = "stop_join" /\ thread # 0 /\ lock = thread
  /\ cons[thread].pc = "append"

\* how many steps the callback in progress has left at most
CallbackRank(pc) == CASE pc = "test" -> 2 [] pc = "put" -> 1 [] OTHER -> 0

\* C27: the callback in progress can always take its next step, whoever
\* holds the buffer lock and whatever the consumers and the control thread
\* are doing, and every step it takes brings it nearer to its end, which it
\* reaches after at most two more steps.
C27_CallbackNeverBlocks ==
  /\ [](cb.pc = "test" => ENABLED CallbackTest)
  /\ [](cb.pc = "put" => ENABLED CallbackPut)
  /\ [][(cb.pc # "idle" /\ cb' # cb) => CallbackRank(cb'.pc) < CallbackRank(cb.pc)]_vars

\* the callback is about to hand over a chunk while get_duration(), clear()
\* or save() holds the buffer lock
C27_Witness ==
  /\ cb.pc = "put" /\ lock = -1 /\ ctl.pc \in {"dur_sum", "clear_reset", "save_concat"}

\* C28: stop() in progress, on its own or within clear(), can always take
\* its join step and comes to its end; and a consumer thread that is alive
\* when the state is neither RECORDING nor PAUSED ends.
C28_StopReturnsConsumerExits ==
  /\ [](ctl.pc = "stop_join" => ENABLED (StopJoin \/ StopJoinTimeout))
  /\ (ctl.pc \in {"stop_stream", "stop_join"}) ~> (ctl.pc \in {"ready", "clear_lock"})
  /\ \A t \in Threads :
       (cons[t].pc # "dead" /\ state \notin {"RECORDING", "PAUSED"})
         ~> (cons[t].pc = "dead")

\* ------------------------------------------------------ the main window
\* the controls as the state st calls for them
InLine(u, st) ==
  /\ u.record_btn = (st = "IDLE")
  /\ u.pause_btn = (st \in {"RECORDING", "PAUSED"})
  /\ u.stop_btn = (st \in {"RECORDING", "PAUSED"})
  /\ u.clear_btn = (st # "IDLE")
  /\ u.save_frame = (st = "STOPPED")
  /\ u.quality_combo = (st = "IDLE")

\* C31: every run of the periodic refresh _update_ui leaves the controls in
\* line with the recorder's state: Record enabled exactly in IDLE, Pause and
\* Stop enabled exactly in RECORDING or PAUSED, Clear enabled exactly when the
\* state is not IDLE, the save controls visible exactly in STOPPED, and the
\* quality selector enabled exactly in IDLE.
C31_RefreshAlignsControls ==
  [][Returns("_update_ui") => InLine(ui', state')]_vars

\* the step enters closeEvent
CloseCalled == ctl.pc = "ready" /\ ctl'.op = "closeEvent"

\* C32: when closeEvent accepts the close, the recorder is IDLE with no open
\* stream and an empty buffer; the discard prompt is shown exactly when the
\* state at the close is not IDLE; and when the answer is No the close is
\* ignored, and no step of the handler has changed the recorder's state,
\* buffer or stream.
C32_CloseNeverLeavesCapture ==
  /\ [][(Returns("closeEvent") /\ last'[1].out = "accepted")
          => /\ ui'.closed
             /\ state' = "IDLE" /\ stream' = <<>> /\ frames' = <<>>]_vars
  /\ [][CloseCalled => (ctl'.pc = "close_prompt" <=> state # "IDLE")]_vars
  /\ [][CloseCalled => (ctl'.pc = "close_prompt"
                          => UNCHANGED <<state, frames, stream>>)]_vars
  /\ [][(Returns("closeEvent") /\ last'[1].out = "ignored")
          => /\ ~ui'.closed
             /\ UNCHANGED <<state, frames, stream>>
             /\ state' = ctl.st0
             /\ (stream' # <<>>) = ctl.s0
             /\ IsPrefix(ctl.f0, frames')]_vars
  /\ [][ui'.closed => (ui.closed \/ last'[1].out = "accepted")]_vars

====
